---- MODULE Spec2Model ----
(***************************************************************************)
(* A model of experitorch: the convention-based component resolver         *)
(* (auto_loading.py) and the experiment lifecycle and persistence methods  *)
(* (experiment.py).                                                        *)
(*                                                                         *)
(* Text.  A Python str is modelled as a sequence of tokens; a token is an  *)
(* atomic piece of text ("m", "M", "-", "/", "trainer", ...).  String      *)
(* concatenation is \o, equality of strings is equality of sequences, and  *)
(* str.lower() acts token by token.                                        *)
(*                                                                         *)
(* Three specifications share the variables:                               *)
(*   SpecResolve  calls of get_model_component_class and of the three      *)
(*                lookups built on it, over a fixed module tree;           *)
(*   Spec         two callers running Experiment.create_from_dict and      *)
(*                Experiment.open step by step against one file system,    *)
(*                while the clock advances;                                *)
(*   SpecStore    the persistence methods of one experiment.               *)
(* An exception raised by the code is an outcome of the call, recorded     *)
(* under the name of the Python exception.                                 *)
(***************************************************************************)
EXTENDS Naturals, Sequences, FiniteSets, TLC

VARIABLES
    tree,         \* the project module tree on sys.path (fixed during a run)
    sys_modules,  \* sys.modules: dotted names of the modules already imported
    log,          \* resolver calls made so far, with their outcomes
    clock,        \* the wall clock, in whole seconds
    dirs,         \* the directories that exist on disk (paths)
    files,        \* the regular files that exist on disk: path -> content
    pc,           \* per caller: its position inside create_from_dict / open
    call,         \* per caller: the locals of the call in progress and its outcome
    prev,         \* per caller: the outcome of the call it made before this one
    last,         \* the latest persistence call on the experiment, with its outcome
    saved         \* the latest save call: its element name, name and blob

vars == <<tree, sys_modules, log, clock, dirs, files, pc, call, prev, last, saved>>

(* ------------------------------ bounds --------------------------------- *)

\* resolver calls recorded in one run
MaxCalls == 2
\* the last second the clock reaches
MaxClock == 1

(* ------------------------------- text ---------------------------------- *)

\* str.lower() on one token: the cased tokens of the model and their lower case.
LowerTok(c) ==
    CASE c = "M" -> "m"
      [] c = "P" -> "p"
      [] c = "X" -> "x"
      [] c = "Trainer" -> "trainer"
      [] c = "Parameters" -> "parameters"
      [] c = "MODEL" -> "model"
      [] OTHER -> c

\* str.lower()
Lower(s) == [i \in DOMAIN s |-> LowerTok(s[i])]

\* f"{a}.{b}": the dotted module path of b under a
Dot(a, b) == a \o <<".">> \o b

(* --------------------------- auto_loading.py --------------------------- *)

\* The dotted names importlib imports, in order, for import_module(name):
\* every prefix of name that ends before a "." and name itself.
ImportChain(name) ==
    LET cuts == {i \in 1..Len(name) : name[i] = "."} \cup {Len(name) + 1}
    IN  {SubSeq(name, 1, i - 1) : i \in cuts}

\* importlib.import_module(name) succeeds when every package on the way and
\* the module itself is already in sys.modules or can be found on sys.path.
Importable(t, cache, name) ==
    \A n \in ImportChain(name) : n \in cache \/ n \in t.modules

\* sys.modules after import_module(name): the packages on the way are imported
\* and cached, up to the first one that cannot be found.
CacheAfterImport(t, cache, name) ==
    cache \cup {n \in ImportChain(name) :
                    \A k \in ImportChain(name) :
                        Len(k) <= Len(n) => (k \in cache \/ k \in t.modules)}

\* inspect.getmembers(module): the (name, value) pairs sorted by name; the
\* model keeps the names, in that order.
GetMembers(t, name) == t.members[name]

\* list.index(x): the first position holding x
Index(seq, x) == CHOOSE i \in DOMAIN seq : seq[i] = x /\ \A j \in 1..(i - 1) : seq[j] # x

\* A faulty resolver: the component name is compared as given, not lower-cased.
ResolveNoLowerName(t, cache, project, model_type, component_type, component_name) ==
    LET mt == Lower(model_type)
        ct == Lower(component_type)
        cn == component_name
        model_module_path == Dot(Dot(project, <<"models">>), mt)
        component_module_path == Dot(model_module_path, ct)
    IN  IF ~Importable(t, cache, model_module_path)
        THEN [kind |-> "ModuleNotFoundError"]
        ELSE IF ~Importable(t, cache, component_module_path)
        THEN [kind |-> "ModuleNotFoundError"]
        ELSE LET members == GetMembers(t, component_module_path)
                 header == [i \in DOMAIN members |-> Lower(members[i])]
             IN  IF \A i \in DOMAIN header : header[i] # cn
                 THEN [kind |-> "AttributeError"]
                 ELSE [kind |-> "class",
                       module |-> component_module_path,
                       name |-> members[Index(header, cn)]]

\* A faulty resolver: a missing model module is reported as a missing
\* component.
ResolveWrongError(t, cache, project, model_type, component_type, component_name) ==
    LET r == ResolveNoLowerName(t, cache, project, model_type, component_type,
                                Lower(component_name))
        model_module_path == Dot(Dot(project, <<"models">>), Lower(model_type))
    IN  IF ~Importable(t, cache, model_module_path)
        THEN [kind |-> "AttributeError"]
        ELSE r

\* get_model_component_class: what the call returns or raises.
GetModelComponentClass(t, cache, project, model_type, component_type, component_name) ==
    LET mt == Lower(model_type)
        ct == Lower(component_type)
        cn == Lower(component_name)
        model_module_path == Dot(Dot(project, <<"models">>), mt)
        component_module_path == Dot(model_module_path, ct)
    IN  IF ~Importable(t, cache, model_module_path)
        THEN [kind |-> "ModuleNotFoundError"]
        ELSE IF ~Importable(t, cache, component_module_path)
        THEN [kind |-> "ModuleNotFoundError"]
        ELSE LET members == GetMembers(t, component_module_path)
                 header == [i \in DOMAIN members |-> Lower(members[i])]
             IN  IF \A i \in DOMAIN header : header[i] # cn
                 THEN [kind |-> "AttributeError"]
                 ELSE [kind |-> "class",
                       module |-> component_module_path,
                       name |-> members[Index(header, cn)]]

\* sys.modules after get_model_component_class: the model module is imported
\* first, the component module only when that succeeded.
CacheAfterResolve(t, cache, project, model_type, component_type) ==
    LET model_module_path == Dot(Dot(project, <<"models">>), Lower(model_type))
        component_module_path == Dot(model_module_path, Lower(component_type))
        c1 == CacheAfterImport(t, cache, model_module_path)
    IN  IF Importable(t, cache, model_module_path)
        THEN CacheAfterImport(t, c1, component_module_path)
        ELSE c1

\* get_model_class
GetModelClass(t, cache, project, model_type) ==
    GetModelComponentClass(t, cache, project, model_type, <<"model">>, model_type)

\* get_model_trainer
GetModelTrainer(t, cache, project, model_type) ==
    GetModelComponentClass(t, cache, project, model_type, <<"trainer">>,
                           model_type \o <<"trainer">>)

\* get_model_parameters
GetModelParameters(t, cache, project, model_type) ==
    GetModelComponentClass(t, cache, project, model_type, <<"config">>,
                           model_type \o <<"parameters">>)

(* ------------------------ the project module trees --------------------- *)

\* A project "p" that follows the convention for model type "m": the class M,
\* its trainer MTrainer and its parameters MParameters.  The model module
\* also holds a helper function m, which getmembers lists after M.
TreeA ==
    [modules |-> {<<"p">>, <<"p", ".", "models">>, <<"p", ".", "models", ".", "m">>,
                  <<"p", ".", "models", ".", "m", ".", "model">>,
                  <<"p", ".", "models", ".", "m", ".", "trainer">>,
                  <<"p", ".", "models", ".", "m", ".", "config">>},
     members |->
        (<<"p", ".", "models", ".", "m", ".", "model">> :>
            << <<"M">>, <<"__name__">>, <<"m">> >>)
     @@ (<<"p", ".", "models", ".", "m", ".", "trainer">> :>
            << <<"M", "Trainer">>, <<"__name__">> >>)
     @@ (<<"p", ".", "models", ".", "m", ".", "config">> :>
            << <<"M", "Parameters">>, <<"__name__">> >>)]

\* Two projects whose names differ in case only, "p" and "P"; "p" has model
\* type "m" without a trainer module, and a model package declared as "X".
TreeB ==
    [modules |-> {<<"p">>, <<"p", ".", "models">>, <<"p", ".", "models", ".", "m">>,
                  <<"p", ".", "models", ".", "m", ".", "model">>,
                  <<"p", ".", "models", ".", "X">>,
                  <<"p", ".", "models", ".", "X", ".", "model">>,
                  <<"P">>, <<"P", ".", "models">>, <<"P", ".", "models", ".", "m">>,
                  <<"P", ".", "models", ".", "m", ".", "model">>},
     members |->
        (<<"p", ".", "models", ".", "m", ".", "model">> :>
            << <<"__name__">>, <<"m">> >>)
     @@ (<<"p", ".", "models", ".", "X", ".", "model">> :>
            << <<"X">>, <<"__name__">> >>)
     @@ (<<"P", ".", "models", ".", "m", ".", "model">> :>
            << <<"M">>, <<"__name__">> >>)]

TreeSet == {TreeA, TreeB}

\* The arguments the resolver is called with.
Projects == {<<"p">>, <<"P">>}
ModelTypes == {<<"m">>, <<"M">>, <<"X">>}
ComponentTypes == {<<"MODEL">>, <<"trainer">>}
ComponentNames == {<<"m">>, <<"M">>, <<"x">>}

(* --------------------------- the resolver's runs ----------------------- *)

\* A caller calls get_model_component_class(project, model_type,
\* component_type, component_name).
Resolve(project, model_type, component_type, component_name) ==
    /\ Len(log) < MaxCalls
    /\ log' = Append(log,
            [project |-> project, model_type |-> model_type,
             component_type |-> component_type, component_name |-> component_name,
             res |-> GetModelComponentClass(tree, sys_modules, project, model_type,
                                            component_type, component_name)])
    /\ sys_modules' = CacheAfterResolve(tree, sys_modules, project, model_type,
                                        component_type)
    /\ UNCHANGED <<tree, clock, dirs, files, pc, call, prev, last, saved>>

\* A caller calls get_model_class(project, model_type).
ResolveModel(project, model_type) ==
    /\ Len(log) < MaxCalls
    /\ log' = Append(log,
            [project |-> project, model_type |-> model_type,
             component_type |-> <<"model">>, component_name |-> model_type,
             res |-> GetModelClass(tree, sys_modules, project, model_type)])
    /\ sys_modules' = CacheAfterResolve(tree, sys_modules, project, model_type,
                                        <<"model">>)
    /\ UNCHANGED <<tree, clock, dirs, files, pc, call, prev, last, saved>>

\* A caller calls get_model_trainer(project, model_type).
ResolveTrainer(project, model_type) ==
    /\ Len(log) < MaxCalls
    /\ log' = Append(log,
            [project |-> project, model_type |-> model_type,
             component_type |-> <<"trainer">>,
             component_name |-> model_type \o <<"trainer">>,
             res |-> GetModelTrainer(tree, sys_modules, project, model_type)])
    /\ sys_modules' = CacheAfterResolve(tree, sys_modules, project, model_type,
                                        <<"trainer">>)
    /\ UNCHANGED <<tree, clock, dirs, files, pc, call, prev, last, saved>>

\* A caller calls get_model_parameters(project, model_type).
ResolveParameters(project, model_type) ==
    /\ Len(log) < MaxCalls
    /\ log' = Append(log,
            [project |-> project, model_type |-> model_type,
             component_type |-> <<"config">>,
             component_name |-> model_type \o <<"parameters">>,
             res |-> GetModelParameters(tree, sys_modules, project, model_type)])
    /\ sys_modules' = CacheAfterResolve(tree, sys_modules, project, model_type,
                                        <<"config">>)
    /\ UNCHANGED <<tree, clock, dirs, files, pc, call, prev, last, saved>>

InitResolve ==
    /\ tree \in TreeSet
    /\ sys_modules = {}
    /\ log = <<>>
    /\ clock = 0
    /\ dirs = {}
    /\ files = <<>>
    /\ pc = <<>>
    /\ call = <<>>
    /\ prev = <<>>
    /\ last = <<>>
    /\ saved = <<>>

NextResolve ==
    \/ \E p \in Projects, m \in ModelTypes, ct \in ComponentTypes, cn \in ComponentNames :
            Resolve(p, m, ct, cn)
    \/ \E p \in Projects, m \in ModelTypes : ResolveModel(p, m)
    \/ \E p \in Projects, m \in ModelTypes : ResolveTrainer(p, m)
    \/ \E p \in Projects, m \in ModelTypes : ResolveParameters(p, m)

SpecResolve == InitResolve /\ [][NextResolve]_vars

(* ------------------------- claims on the resolver ---------------------- *)

\* The module path the resolver forms: the project as given, the model type
\* and the component type in lower case.
ModelModuleOf(e) == Dot(Dot(e.project, <<"models">>), Lower(e.model_type))
ComponentModuleOf(e) == Dot(ModelModuleOf(e), Lower(e.component_type))

\* A module exists in the tree when it and the packages above it do.
ModuleExists(name) == ImportChain(name) \subseteq tree.modules

\* Some member of the module has the given name, compared in lower case.
HasMember(module, name) ==
    \E i \in DOMAIN tree.members[module] :
        Lower(tree.members[module][i]) = Lower(name)

\* C6: error classification of the resolver.  A call whose model module does
\* not exist fails with ModuleNotFoundError (never with AttributeError, the
\* code's ComponentNotFound); so does a call whose model module exists and
\* whose component module does not; a call for which both exist and no member
\* matches the component name in lower case fails with AttributeError.
C6_ErrorClassification ==
    \A i \in DOMAIN log :
        LET e == log[i]
        IN  /\ ~ModuleExists(ModelModuleOf(e)) => e.res.kind = "ModuleNotFoundError"
            /\ (ModuleExists(ModelModuleOf(e)) /\ ~ModuleExists(ComponentModuleOf(e)))
                    => e.res.kind = "ModuleNotFoundError"
            /\ (ModuleExists(ComponentModuleOf(e))
                    /\ ~HasMember(ComponentModuleOf(e), e.component_name))
                    => e.res.kind = "AttributeError"

\* C6's case: one run holds a call that failed on a missing model module, and
\* one that found both modules and no member of that name.
C6_Witness ==
    \E i, j \in DOMAIN log :
        /\ ~ModuleExists(ModelModuleOf(log[i]))
        /\ log[i].res.kind = "ModuleNotFoundError"
        /\ ModuleExists(ComponentModuleOf(log[j]))
        /\ ~HasMember(ComponentModuleOf(log[j]), log[j].component_name)
        /\ log[j].res.kind = "AttributeError"

\* Two calls agree on the three identifiers the resolver lower-cases.
SameLowered(a, b) ==
    /\ Lower(a.model_type) = Lower(b.model_type)
    /\ Lower(a.component_type) = Lower(b.component_type)
    /\ Lower(a.component_name) = Lower(b.component_name)

\* C7 as stated: any two calls whose project, model type, component type and
\* component name are equal after lower-casing have the same outcome.
C7_Original ==
    \A i, j \in DOMAIN log :
        (Lower(log[i].project) = Lower(log[j].project) /\ SameLowered(log[i], log[j]))
            => log[i].res = log[j].res

\* C7 amended: any two calls with the same project, and whose model type,
\* component type and component name are equal after lower-casing, have the
\* same outcome, whatever was called before; a component that is returned is a
\* member of the component module under its declared name.
C7_CaseInsensitive ==
    /\ \A i, j \in DOMAIN log :
            (log[i].project = log[j].project /\ SameLowered(log[i], log[j]))
                => log[i].res = log[j].res
    /\ \A i \in DOMAIN log :
            log[i].res.kind = "class" =>
                /\ log[i].res.module = ComponentModuleOf(log[i])
                /\ \E k \in DOMAIN tree.members[log[i].res.module] :
                        tree.members[log[i].res.module][k] = log[i].res.name
                /\ Lower(log[i].res.name) = Lower(log[i].component_name)

\* C7's case: two calls that differ in the casing of their arguments only
\* returned the same class, whose declared name has another casing again.
C7_Witness ==
    \E i, j \in DOMAIN log :
        /\ i < j
        /\ log[i].project = log[j].project
        /\ SameLowered(log[i], log[j])
        /\ log[i].model_type # log[j].model_type
        /\ log[i].component_name # log[j].component_name
        /\ log[i].res.kind = "class"
        /\ log[j].res = log[i].res
        /\ log[i].res.name # log[i].component_name

(* ----------------------------- the file system ------------------------- *)

\* os.path.join(a, b)
Join(a, b) ==
    IF b # <<>> /\ b[1] = "/" THEN b
    ELSE IF a = <<>> \/ a[Len(a)] = "/" THEN a \o b
    ELSE a \o <<"/">> \o b

\* os.path.exists(path)
PathExists(path) == path \in dirs \/ path \in DOMAIN files

\* os.path.isfile(path)
IsFile(path) == path \in DOMAIN files

(* ----------------------- experiment.py: PathGenerator ------------------ *)

\* The properties of PathGenerator that end in "_path", each with the suffix
\* it joins to the root.
PathProperties ==
    (<<"config", "_", "path">> :> <<"config.yaml">>)
    @@ (<<"checkpoint", "_", "path">> :> <<"checkpoints">>)
    @@ (<<"results", "_", "path">> :> <<"results">>)
    @@ (<<"tensorboard", "_", "path">> :> <<"tensorboard">>)
    @@ (<<"figures", "_", "path">> :> <<"figures">>)

\* PathGenerator._concat_root_and_suffix
ConcatRootAndSuffix(root, suffix) == Join(root, suffix)

\* PathGenerator.config_path
ConfigPath(root) == ConcatRootAndSuffix(root, <<"config.yaml">>)

(* ------------------- experiment.py: creating and opening --------------- *)

Callers == {"c1", "c2"}

\* time.strftime("%Y-%m-%d-%H-%M-%S", time.localtime()): the text of second t
Timestamp(t) == <<ToString(t)>>

\* Experiment.generate_new_name at second t
GenerateNewName(config, t) ==
    config.project \o <<"-">> \o config.model_type \o <<"-">> \o Timestamp(t)

NoConfig == [project |-> <<>>, model_type |-> <<>>, parameters |-> "none"]

\* The outcome of a call: what it returned or raised, and where.  config is
\* the config of the Experiment returned, when one is.
NoRes == [kind |-> "none", at |-> "none", config |-> NoConfig]
Raised(kind, at) == [kind |-> kind, at |-> at, config |-> NoConfig]
NoCall == [fn |-> "none", config |-> NoConfig, outdir |-> <<>>, path |-> <<>>,
           res |-> NoRes]

\* yaml.dump(config): the document as text
YamlDump(config) == [format |-> "yaml", doc |-> config]

\* yaml.load(text): the document of the text
YamlLoad(text) == text.doc

\* The configurations create is called with.  The first follows the module
\* convention of TreeA; the other two name no module of it, and their
\* generated names are the same text.
Configs ==
    {[project |-> <<"p">>, model_type |-> <<"m">>, parameters |-> "layers3"],
     [project |-> <<"p", "-", "m">>, model_type |-> <<"m">>, parameters |-> "layers3"],
     [project |-> <<"p">>, model_type |-> <<"m", "-", "m">>, parameters |-> "layers5"]}

OutDir == <<"out">>

\* An experiment directory made before the run, at the name the first
\* configuration gets in second 0, with its config file.
OldExperiment == Join(OutDir, GenerateNewName(
    [project |-> <<"p">>, model_type |-> <<"m">>, parameters |-> "old"], 0))
OldConfig == [project |-> <<"p">>, model_type |-> <<"m">>, parameters |-> "old"]

\* A faulty existence test, which lets an existing path through.
CheckNeverExists(path) == FALSE

\* create_from_dict, line 114: os.path.exists(path)
CheckExists(path) == PathExists(path)

\* A faulty directory creation, which accepts an existing directory as
\* os.makedirs(path, exist_ok=True) does.
MkdirExistOk(path) == FALSE

\* create_from_dict, line 118: os.mkdir(path) raises FileExistsError when the
\* path exists.
MkdirRaises(path) == PathExists(path)

\* A faulty failure path, which removes the directory it made.
DirsRolledBack(path) == dirs \ {path}

\* The directories after line 119 raised: nothing is undone.
DirsAfterFailure(path) == dirs

\* create_from_dict, lines 112-113: the name and the path of the experiment.
CreateBegin(c, config, outdir) ==
    /\ pc[c] = "idle"
    /\ call' = [call EXCEPT ![c] =
            [fn |-> "create", config |-> config, outdir |-> outdir,
             path |-> Join(outdir, GenerateNewName(config, clock)), res |-> NoRes]]
    /\ pc' = [pc EXCEPT ![c] = "check"]
    /\ UNCHANGED <<tree, sys_modules, log, clock, dirs, files, prev, last, saved>>

\* create_from_dict, lines 114-117: the existence check.
CreateCheck(c) ==
    /\ pc[c] = "check"
    /\ IF CheckExists(call[c].path)
       THEN /\ call' = [call EXCEPT ![c].res =
                    Raised("FileExistsError", "check")]
            /\ pc' = [pc EXCEPT ![c] = "done"]
       ELSE /\ pc' = [pc EXCEPT ![c] = "mkdir"]
            /\ UNCHANGED call
    /\ UNCHANGED <<tree, sys_modules, log, clock, dirs, files, prev, last, saved>>

\* create_from_dict, line 118: os.mkdir(path).  The output directory exists
\* throughout, so the only failure of os.mkdir is an existing path.
CreateMkdir(c) ==
    /\ pc[c] = "mkdir"
    /\ IF MkdirRaises(call[c].path)
       THEN /\ call' = [call EXCEPT ![c].res =
                    Raised("FileExistsError", "mkdir")]
            /\ pc' = [pc EXCEPT ![c] = "done"]
            /\ UNCHANGED dirs
       ELSE /\ dirs' = dirs \cup {call[c].path}
            /\ pc' = [pc EXCEPT ![c] = "layout"]
            /\ UNCHANGED call
    /\ UNCHANGED <<tree, sys_modules, log, clock, files, prev, last, saved>>

\* create_from_dict, line 119: PathCreator(path).  PathCreator is a frozen
\* dataclass (line 50) with a hand-written __init__; the __setattr__ that
\* dataclass installs raises FrozenInstanceError for every assignment to an
\* instance of the class, so line 55 raises and lines 120-125 never run.
CreateLayout(c) ==
    /\ pc[c] = "layout"
    /\ call' = [call EXCEPT ![c].res =
            Raised("FrozenInstanceError", "PathCreator")]
    /\ pc' = [pc EXCEPT ![c] = "done"]
    /\ dirs' = DirsAfterFailure(call[c].path)
    /\ UNCHANGED <<tree, sys_modules, log, clock, files, prev, last, saved>>

\* Experiment.open(path), lines 104-106.  open(path, "r") raises on a
\* directory and on a missing path; for a file holding a configuration,
\* Experiment(path, config) runs, and line 88 raises FrozenInstanceError as
\* line 55 does (Experiment is a frozen dataclass too, line 83).
OpenResult(path) ==
    IF path \in dirs THEN Raised("IsADirectoryError", "open")
    ELSE IF ~IsFile(path) THEN Raised("FileNotFoundError", "open")
    ELSE IF {"project", "model_type", "parameters"}
                \subseteq DOMAIN YamlLoad(files[path])
    THEN Raised("FrozenInstanceError", "Experiment")
    ELSE Raised("ValidationError", "ExperimentConfig")

Open(c, path) ==
    /\ pc[c] = "idle"
    /\ call' = [call EXCEPT ![c] =
            [fn |-> "open", config |-> NoConfig, outdir |-> <<>>, path |-> path,
             res |-> OpenResult(path)]]
    /\ pc' = [pc EXCEPT ![c] = "done"]
    /\ UNCHANGED <<tree, sys_modules, log, clock, dirs, files, prev, last, saved>>

\* The call is over: the caller has its outcome and may call again.  The
\* outcome is remembered for one caller, c1, whose retries and opens the
\* claims follow; c2 is any other caller at work beside it.
Return(c) ==
    /\ pc[c] = "done"
    /\ prev' = IF c = "c1" THEN [prev EXCEPT ![c] = call[c]] ELSE prev
    /\ call' = [call EXCEPT ![c] = NoCall]
    /\ pc' = [pc EXCEPT ![c] = "idle"]
    /\ UNCHANGED <<tree, sys_modules, log, clock, dirs, files, last, saved>>

\* A second passes.
Tick ==
    /\ clock < MaxClock
    /\ clock' = clock + 1
    /\ UNCHANGED <<tree, sys_modules, log, dirs, files, pc, call, prev, last, saved>>

\* The paths a caller opens: the path of the create it called just before, the
\* config file under that path, and the config file of the old experiment.
OpenPaths(c) ==
    (IF prev[c].fn = "create" THEN {prev[c].path, ConfigPath(prev[c].path)} ELSE {})
        \cup {ConfigPath(OldExperiment)}

Init ==
    /\ tree = TreeA
    /\ sys_modules = {}
    /\ log = <<>>
    /\ clock = 0
    /\ \/ /\ dirs = {OutDir}
          /\ files = <<>>
       \/ /\ dirs = {OutDir, OldExperiment}
          /\ files = (ConfigPath(OldExperiment) :> YamlDump(OldConfig))
    /\ pc = [c \in Callers |-> "idle"]
    /\ call = [c \in Callers |-> NoCall]
    /\ prev = [c \in Callers |-> NoCall]
    /\ last = <<>>
    /\ saved = <<>>

Next ==
    \/ \E c \in Callers, config \in Configs : CreateBegin(c, config, OutDir)
    \/ \E c \in Callers : CreateCheck(c)
    \/ \E c \in Callers : CreateMkdir(c)
    \/ \E c \in Callers : CreateLayout(c)
    \/ \E c \in Callers : \E path \in OpenPaths(c) : Open(c, path)
    \/ \E c \in Callers : Return(c)
    \/ Tick

Spec == Init /\ [][Next]_vars

(* -------------------- claims on creating and opening ------------------- *)

\* The three components of a configuration resolve.
Resolves(config) ==
    /\ GetModelClass(tree, sys_modules, config.project, config.model_type).kind = "class"
    /\ GetModelTrainer(tree, sys_modules, config.project, config.model_type).kind = "class"
    /\ GetModelParameters(tree, sys_modules, config.project, config.model_type).kind
            = "class"

\* The caller's create made the experiment directory.
MadeDirectory(c) ==
    /\ call[c].fn = "create"
    /\ pc[c] = "layout" \/ (pc[c] = "done" /\ call[c].res.at = "PathCreator")

\* C1 as the specification promises it: for a configuration whose components
\* resolve, create on a path that is not taken, followed at once by open on
\* the path of that experiment, yields an Experiment whose config equals the
\* configuration given to create.
C1_CreateOpenRoundTrip ==
    (/\ pc["c1"] = "done"
     /\ call["c1"].fn = "open"
     /\ prev["c1"].fn = "create"
     /\ prev["c1"].res.kind # "FileExistsError"
     /\ Resolves(prev["c1"].config)
     /\ call["c1"].path = prev["c1"].path)
        => (/\ call["c1"].res.kind = "Experiment"
            /\ call["c1"].res.config = prev["c1"].config)

\* C3: a create whose generated path is an existing directory when line 114
\* tests it ends there with FileExistsError, and no step of a create up to and
\* including that test changes a directory or a file.
C3_AlreadyExists ==
    [][\A c \in Callers :
          /\ (pc[c] = "check" /\ call[c].path \in dirs /\ pc'[c] # "check")
                => (/\ pc'[c] = "done"
                    /\ call'[c].res = Raised("FileExistsError", "check")
                    /\ dirs' = dirs
                    /\ files' = files)
          /\ (pc[c] = "idle" /\ pc'[c] = "check") => (dirs' = dirs /\ files' = files)
      ]_vars

\* C3's case: a create on the name of the old experiment was refused, and the
\* old experiment's directory and config file are as they were.
C3_Witness ==
    \E c \in Callers :
        /\ pc[c] = "done"
        /\ call[c].fn = "create"
        /\ call[c].path = OldExperiment
        /\ call[c].res = Raised("FileExistsError", "check")
        /\ dirs = {OutDir, OldExperiment}
        /\ files = (ConfigPath(OldExperiment) :> YamlDump(OldConfig))

\* C4 as the specification promises it: a create for a configuration whose
\* components resolve, on a path that is not taken, returns an Experiment, and
\* then the experiment directory holds the config file with the serialized
\* configuration and the checkpoints, results, tensorboard and figures
\* directories.
C4_LayoutMaterialized ==
    \A c \in Callers :
        (/\ pc[c] = "done"
         /\ call[c].fn = "create"
         /\ call[c].res.kind # "FileExistsError"
         /\ Resolves(call[c].config))
            => (/\ call[c].res.kind = "Experiment"
                /\ call[c].path \in dirs
                /\ ConfigPath(call[c].path) \in DOMAIN files
                /\ files[ConfigPath(call[c].path)] = YamlDump(call[c].config)
                /\ \A sub \in {"checkpoints", "results", "tensorboard", "figures"} :
                        Join(call[c].path, <<sub>>) \in dirs)

\* C9: two creates on one path never both make the directory; and a create
\* that passed the existence check and finds the directory made when it
\* reaches os.mkdir ends there with an error, changing no directory and no
\* file, so it writes no config file and returns no Experiment.
C9_RaceLoserAborts ==
    /\ [](\A c, d \in Callers :
            (c # d /\ call[c].path = call[d].path /\ MadeDirectory(c))
                => ~MadeDirectory(d))
    /\ [][\A c \in Callers :
            (pc[c] = "mkdir" /\ call[c].path \in dirs /\ pc'[c] # "mkdir")
                => (/\ pc'[c] = "done"
                    /\ call'[c].res = Raised("FileExistsError", "mkdir")
                    /\ dirs' = dirs
                    /\ files' = files)
       ]_vars

\* C9's case: two callers passed the check on the same path, one made the
\* directory and the other was stopped at os.mkdir.
C9_Witness ==
    \E c, d \in Callers :
        /\ c # d
        /\ call[c].fn = "create"
        /\ call[d].path = call[c].path
        /\ pc[c] = "done"
        /\ call[c].res = Raised("FileExistsError", "mkdir")
        /\ MadeDirectory(d)

\* A create that failed after it had made the directory.
FailedAfterMkdir(r) ==
    r.fn = "create" /\ r.res.kind \notin {"none", "Experiment"}
        /\ r.res.at \notin {"check", "mkdir"}

PathAttribute(name) == name \o <<"_">> \o <<"path">>

\* PathGenerator.get_path_by_name: getattr(self, name + "_path") raises
\* AttributeError when PathGenerator has no such property.
GetPathByName(root, name) ==
    IF PathAttribute(name) \in DOMAIN PathProperties
    THEN [kind |-> "ok",
          path |-> ConcatRootAndSuffix(root, PathProperties[PathAttribute(name)])]
    ELSE [kind |-> "AttributeError", path |-> <<>>]

\* Experiment._create_element_path: the AttributeError is logged and raised
\* again; otherwise the name is joined to the path of the element.
CreateElementPath(root, element_name, name) ==
    LET p == GetPathByName(root, element_name)
    IN  IF p.kind = "AttributeError" THEN p
        ELSE [kind |-> "ok", path |-> Join(p.path, name)]

\* os.path.dirname(path)
Dirname(path) ==
    LET slashes == {i \in DOMAIN path : path[i] = "/"}
    IN  IF slashes = {} THEN <<>>
        ELSE SubSeq(path, 1, (CHOOSE i \in slashes : \A j \in slashes : j <= i) - 1)

\* torch.save(element, path): the bytes written
TorchSave(element) == [format |-> "torch", obj |-> element]

\* Experiment._is_element_available: what the call returns or raises.
IsElementAvailable(root, element_name, name) ==
    LET p == CreateElementPath(root, element_name, name)
    IN  IF p.kind = "AttributeError" THEN [kind |-> "AttributeError", value |-> "none"]
        ELSE [kind |-> "returned", value |-> IsFile(p.path)]

\* Experiment._load_element: what torch.load(path) returns or raises.
LoadElement(root, element_name, name) ==
    LET p == CreateElementPath(root, element_name, name)
    IN  IF p.kind = "AttributeError" THEN [kind |-> "AttributeError", value |-> "none"]
        ELSE IF p.path \in dirs THEN [kind |-> "IsADirectoryError", value |-> "none"]
        ELSE IF ~IsFile(p.path) THEN [kind |-> "FileNotFoundError", value |-> "none"]
        ELSE IF files[p.path].format # "torch"
        THEN [kind |-> "UnpicklingError", value |-> "none"]
        ELSE [kind |-> "returned", value |-> files[p.path].obj]

\* Experiment._save_element: what torch.save(element, path) returns or raises.
SaveElementResult(root, element_name, name) ==
    LET p == CreateElementPath(root, element_name, name)
    IN  IF p.kind = "AttributeError" THEN [kind |-> "AttributeError", value |-> "none"]
        ELSE IF p.path \in dirs THEN [kind |-> "IsADirectoryError", value |-> "none"]
        ELSE IF Dirname(p.path) \notin dirs
        THEN [kind |-> "FileNotFoundError", value |-> "none"]
        ELSE [kind |-> "returned", value |-> "none"]

\* The files after Experiment._save_element: an existing file is overwritten.
FilesAfterSave(root, element, element_name, name) ==
    IF SaveElementResult(root, element_name, name).kind = "returned"
    THEN LET path == CreateElementPath(root, element_name, name).path
         IN  [q \in DOMAIN files \cup {path} |->
                    IF q = path THEN TorchSave(element) ELSE files[q]]
    ELSE files

\* The experiment the persistence methods are called on.  The methods read
\* self.paths only, which line 91 sets to PathGenerator(path); they are
\* modelled on a receiver with paths = PathGenerator(Root).  (Through
\* Experiment.__init__ itself no instance is ever built: line 88 raises, see
\* OpenResult.)
Root == <<"exp">>

\* The element names the private methods are called with, the names of the
\* saved elements, and the blobs.
ElementNames == {<<"checkpoints">>, <<"results">>, <<"figures">>, <<"plots">>}
Names == {<<"e1">>, <<"best">>}
Blobs == {"epoch1", "epoch2"}

\* The directories of the layout of section 6 of the specification.
LayoutDirs ==
    {Root, Join(Root, <<"checkpoints">>), Join(Root, <<"results">>),
     Join(Root, <<"tensorboard">>), Join(Root, <<"figures">>)}

\* experiment._save_element(element, element_name, name)
SaveElement(element, element_name, name) ==
    /\ last' = [op |-> "save", element_name |-> element_name, name |-> name,
                res |-> SaveElementResult(Root, element_name, name)]
    /\ files' = FilesAfterSave(Root, element, element_name, name)
    /\ saved' = [element_name |-> element_name, name |-> name, element |-> element]
    /\ UNCHANGED <<tree, sys_modules, log, clock, dirs, pc, call, prev>>

\* experiment._load_element(element_name, name)
Load(element_name, name) ==
    /\ last' = [op |-> "load", element_name |-> element_name, name |-> name,
                res |-> LoadElement(Root, element_name, name)]
    /\ UNCHANGED <<tree, sys_modules, log, clock, dirs, files, pc, call, prev, saved>>

\* experiment._is_element_available(element_name, name)
IsAvailable(element_name, name) ==
    /\ last' = [op |-> "exists", element_name |-> element_name, name |-> name,
                res |-> IsElementAvailable(Root, element_name, name)]
    /\ UNCHANGED <<tree, sys_modules, log, clock, dirs, files, pc, call, prev, saved>>

\* experiment.save_checkpoint(checkpoint, name)
SaveCheckpoint(checkpoint, name) == SaveElement(checkpoint, <<"checkpoints">>, name)

\* experiment.load_checkpoint(name)
LoadCheckpoint(name) == Load(<<"checkpoints">>, name)

\* experiment.is_checkpoint_available(name)
IsCheckpointAvailable(name) == IsAvailable(<<"checkpoints">>, name)

\* experiment.save_results(results, name)
SaveResults(results, name) == SaveElement(results, <<"results">>, name)

\* experiment.load_results(name)
LoadResults(name) == Load(<<"results">>, name)

\* experiment.is_results_available(name)
IsResultsAvailable(name) == IsAvailable(<<"results">>, name)

NoOp == [op |-> "none", element_name |-> <<>>, name |-> <<>>,
         res |-> [kind |-> "none", value |-> "none"]]

NoSave == [element_name |-> <<>>, name |-> <<>>, element |-> "none"]

\* The experiment directory holds the whole layout, or it is the bare
\* directory that an interrupted create leaves.
InitStore ==
    /\ tree = <<>>
    /\ sys_modules = {}
    /\ log = <<>>
    /\ clock = 0
    /\ dirs \in {LayoutDirs, {Root}}
    /\ files = (ConfigPath(Root) :> YamlDump(OldConfig))
    /\ pc = <<>>
    /\ call = <<>>
    /\ prev = <<>>
    /\ last = NoOp
    /\ saved = NoSave

NextStore ==
    \/ \E e \in Blobs, en \in ElementNames, n \in Names : SaveElement(e, en, n)
    \/ \E en \in ElementNames, n \in Names : Load(en, n)
    \/ \E en \in ElementNames, n \in Names : IsAvailable(en, n)
    \/ \E e \in Blobs, n \in Names : SaveCheckpoint(e, n)
    \/ \E n \in Names : LoadCheckpoint(n)
    \/ \E n \in Names : IsCheckpointAvailable(n)
    \/ \E e \in Blobs, n \in Names : SaveResults(e, n)
    \/ \E n \in Names : LoadResults(n)
    \/ \E n \in Names : IsResultsAvailable(n)

SpecStore == InitStore /\ [][NextStore]_vars

(* ------------------------- claims on persistence ----------------------- *)

\* The layout of the experiment exists on disk.
LayoutExists == LayoutDirs \subseteq dirs

\* The two categories of the persistence contract.
Categories == {<<"checkpoints">>, <<"results">>}

\* The latest persistence call was made on the key of the latest save.
OnSavedKey == last.element_name = saved.element_name /\ last.name = saved.name

\* C2 as the specification promises it: on an experiment whose layout exists,
\* after save(blob, category, name) for a category of {checkpoints, results},
\* and until the next save, exists(category, name) is true and
\* load(category, name) returns the saved blob.
C2_SaveLoadRoundTrip ==
    (LayoutExists /\ saved.element_name \in Categories) =>
        /\ IsElementAvailable(Root, saved.element_name, saved.name)
                = [kind |-> "returned", value |-> TRUE]
        /\ (last.op = "exists" /\ OnSavedKey)
                => last.res = [kind |-> "returned", value |-> TRUE]
        /\ (last.op = "load" /\ OnSavedKey)
                => last.res = [kind |-> "returned", value |-> saved.element]

\* The half of C2 that the code keeps: the same round trip for the results
\* category alone.
ResultsRoundTrip ==
    (LayoutExists /\ saved.element_name = <<"results">>) =>
        /\ IsElementAvailable(Root, saved.element_name, saved.name)
                = [kind |-> "returned", value |-> TRUE]
        /\ (last.op = "exists" /\ OnSavedKey)
                => last.res = [kind |-> "returned", value |-> TRUE]
        /\ (last.op = "load" /\ OnSavedKey)
                => last.res = [kind |-> "returned", value |-> saved.element]

\* C5: exists(category, name), for a category of {checkpoints, results} and any
\* name, raises nothing and returns a boolean, which is false when the
\* category directory or the file is missing; and it changes no directory and
\* no file.
C5_ExistsNeverRaises ==
    /\ []((last.op = "exists" /\ last.element_name \in Categories) =>
                /\ last.res.kind = "returned"
                /\ last.res.value \in BOOLEAN
                /\ (\/ Join(Root, last.element_name) \notin dirs
                    \/ ~IsFile(Join(Join(Root, last.element_name), last.name)))
                        => last.res.value = FALSE)
    /\ [][(last'.op = "exists" /\ last' # last) => (dirs' = dirs /\ files' = files)]_vars

\* C8: save and load fail with the unknown-category error (AttributeError in
\* the code) exactly when the category is outside {checkpoints, results}; a
\* call that fails so writes no file.
C8_UnknownCategory ==
    /\ [](last.op \in {"save", "load"} =>
                (last.res.kind = "AttributeError" <=> last.element_name \notin Categories))
    /\ [][(last'.res.kind = "AttributeError" /\ last' # last)
            => (dirs' = dirs /\ files' = files)]_vars

====
